---- MODULE Spec2Model ----
(***************************************************************************)
(* HandlerTable<N> of src/src/lib.rs: an array of N AtomicUsize slots that *)
(* hold 0 (empty) or the address of a registered fn().  Threads call       *)
(* register_handler, unregister_handler and handle concurrently; each call *)
(* is split at its single atomic access (compare_exchange, swap, load),    *)
(* and handle's call of the loaded handler is a step of its own.           *)
(***************************************************************************)
EXTENDS Integers, Sequences, FiniteSets, TLC

\* ---------------------------------------------------------------- bounds
\* const N: the number of slots of the table under check.
N == 2
\* Number of concurrently calling threads.
NumThreads == 2
\* Number of distinct fn() items the callers can register.
NumHandlers == 2

Threads == 1..NumThreads
Slots == 0..(N - 1)
\* idx arguments the callers pass: every slot, and two indices past the end.
Indices == 0..(N + 1)

\* ------------------------------------------------------------ data types
\* pub type Handler = fn(): a function item, identified by its code address
\* (never null).
Handler == {<<"fn", a>> : a \in 1..NumHandlers}
NoArg == <<"fn">>

\* `handler as usize`: the address of the function item.
AsUsize(h) == h[2]

\* core::mem::transmute::<usize, fn()>: the function item at that address.
Transmute(u) == <<"fn", u>>

\* AtomicUsize::new(0): the value of an empty slot.
EmptyWord == 0

\* Result values.
Bool(b) == <<"bool", b>>
None == <<"None">>
Some(h) == <<"Some", h>>
NoRet == <<>>

VARIABLES
    handlers,   \* handlers[i]: the usize in slot i
    pc,         \* pc[t]: where thread t is in its call
    op,         \* op[t]: the method thread t called last
    idx,        \* idx[t]: its idx argument
    arg,        \* arg[t]: its handler argument (register_handler only)
    loaded,     \* loaded[t]: the local `handler` (unregister_handler, handle)
    ret,        \* ret[t]: the value the call returned
    \* History of the execution, read by the properties only:
    ran,        \* ran[t]: the handlers this call of t has run, in order
    atCall,     \* atCall[t]: the word in slot idx[t] when the call started
    access,     \* access[t]: one record per atomic access of this call
    during,     \* during[t]: other threads' changes of slot idx[t] while
                \*            this call of t was in progress
    after,      \* after[t]: the kinds of other threads' changes of slot
                \*           idx[t] since this call of t returned
    installed,  \* installed[i]: the handler of the register call that last
                \*               returned true on slot i, until an unregister
                \*               call returns a handler from slot i
    fresh,      \* fresh: no register call has reached its compare_exchange
    released,   \* released[i]: the word in slot i was stored with release
                \*              ordering (or by a read-modify-write after one)
    synced,     \* synced[t]: the atomic access of this call of t
                \*            synchronized with the store of the word it read
    seqMap,     \* seqMap[i]: slot i of the table as the documented, one call
                \*            at a time, behaviour of the methods leaves it
    seqRes,     \* seqRes[t]: what that behaviour gives this call of t
    held        \* held[i][h]: register calls on slot i that returned true
                \*             for h, minus unregister calls on it that
                \*             returned Some(h)

vars == <<handlers, pc, op, idx, arg, loaded, ret, ran,
          atCall, access, during, after, installed, fresh, released, synced,
          seqMap, seqRes, held>>

\* ------------------------------------------------------------- helpers
\* Thread t is inside a call.
InCall(t) == pc[t] \notin {"idle", "done"}

\* The threads, other than t, whose current call is on slot i.
Peers(t, i) == {u \in Threads \ {t} : op[u] # "none" /\ idx[u] = i}

\* What an atomic access of t on slot i finds: the word, the handler
\* installed, and the current calls of the other threads on the slot, each
\* with its position ("done": it has returned).
Snapshot(t, i) ==
    [word |-> handlers[i],
     owner |-> installed[i],
     peers |-> {<<u, pc[u]>> : u \in Peers(t, i)}]

\* Thread t changed slot i: its peers record the event.
Notify(t, i, changed, ev) ==
    /\ during' = [u \in Threads |->
                    IF changed /\ u \in Peers(t, i) /\ InCall(u)
                      THEN during[u] \cup {ev} ELSE during[u]]
    /\ after' = [u \in Threads |->
                    IF changed /\ u \in Peers(t, i) /\ ~InCall(u)
                      THEN after[u] \cup {ev[1]} ELSE after[u]]

\* Thread t leaves its previous call: the snapshots of the others forget it.
Forget(t, accs) ==
    [k \in 1..Len(accs) |->
        [accs[k] EXCEPT !.peers = {e \in @ : e[1] # t}]]

\* The documented behaviour of the three methods on a table m that maps each
\* slot to NoArg (empty) or to its handler: the table after the call, the
\* value returned and the handlers run.
NoRes == [ret |-> NoRet, run |-> <<>>]

\* "true if the slot was empty and registration succeeded; false if idx is
\* out of range or the slot was already occupied."
SeqRegister(m, i, h) ==
    IF i \in DOMAIN m /\ m[i] = NoArg
      THEN [map |-> [m EXCEPT ![i] = h], ret |-> Bool(TRUE), run |-> <<>>]
      ELSE [map |-> m, ret |-> Bool(FALSE), run |-> <<>>]

\* "Some(handler) if a handler was registered; None if idx is out of range
\* or the slot was empty."
SeqUnregister(m, i) ==
    IF i \in DOMAIN m /\ m[i] # NoArg
      THEN [map |-> [m EXCEPT ![i] = NoArg], ret |-> Some(m[i]), run |-> <<>>]
      ELSE [map |-> m, ret |-> None, run |-> <<>>]

\* "true if a handler was found and called; false if idx is out of range or
\* the slot was empty."
SeqHandle(m, i) ==
    IF i \in DOMAIN m /\ m[i] # NoArg
      THEN [map |-> m, ret |-> Bool(TRUE), run |-> <<m[i]>>]
      ELSE [map |-> m, ret |-> Bool(FALSE), run |-> <<>>]

SeqCall(m, method, i, h) ==
    CASE method = "register" -> SeqRegister(m, i, h)
      [] method = "unregister" -> SeqUnregister(m, i)
      [] method = "handle" -> SeqHandle(m, i)

\* The documented behaviour takes effect at the step that decides the call.
Linearize(t, method, i, h) ==
    LET r == SeqCall(seqMap, method, i, h)
    IN /\ seqMap' = r.map
       /\ seqRes' = [seqRes EXCEPT ![t] = [ret |-> r.ret, run |-> r.run]]

\* self.handlers[idx]: the slot an in-range index selects.
IndexFirst(i) == 0
Index(i) == i

\* The Ordering arguments of the atomic accesses.
CasSuccessOrdering == "Acquire"
CasFailureOrdering == "Relaxed"
SwapOrdering == "Acquire"
LoadOrdering == "Acquire"

\* core::sync::atomic::Ordering: the orderings under which a store releases,
\* and those under which a load acquires.
Releases(o) == o \in {"Release", "AcqRel", "SeqCst"}
Acquires(o) == o \in {"Acquire", "AcqRel", "SeqCst"}

\* compare_exchange(current, new): the new word of the slot, and whether it
\* succeeded.
CasBlind(word, current, new) == [word |-> new, ok |-> TRUE]
CasOverwrites(word, current, new) == [word |-> new, ok |-> word = current]
CompareExchange(word, current, new) ==
    IF word = current THEN [word |-> new, ok |-> TRUE]
                      ELSE [word |-> word, ok |-> FALSE]

\* .is_ok(): register_handler returns the outcome of its one compare_exchange.
AfterCasRetry(ok) == IF ok THEN "done" ELSE "cas"
AfterCas(ok) == "done"

\* swap(val): the new word of the slot, and the word it held.
SwapLosesOld(word, val) == [word |-> val, old |-> val]
SwapKeeps(word, val) == [word |-> word, old |-> word]
Swap(word, val) == [word |-> val, old |-> word]

\* load(): the word the slot keeps, and the word read.
LoadTakes(word) == [word |-> 0, val |-> word]
Load(word) == [word |-> word, val |-> word]

\* if handler != 0 { Some(transmute(handler)) } else { None }
ToOptionUnchecked(w) == Some(Transmute(w))
ToOption(w) == IF w # 0 THEN Some(Transmute(w)) ELSE None

\* if idx >= N { return ..; }
OutOfRangeOffByOne(i) == i > N
OutOfRange(i) == i >= N

\* handler(): the call of the handler, added to the log of the calls made.
CallSkipped(h, log) == log
Call(h, log) == Append(log, h)

\* ---------------------------------------------------------------- Init
\* HandlerTable::new (and Default::default, which calls it): every slot 0.
NewUninit == [i \in Slots |-> i + 1]
New == [i \in Slots |-> EmptyWord]

Init ==
    /\ handlers = New
    /\ pc = [t \in Threads |-> "idle"]
    /\ op = [t \in Threads |-> "none"]
    /\ idx = [t \in Threads |-> 0]
    /\ arg = [t \in Threads |-> NoArg]
    /\ loaded = [t \in Threads |-> EmptyWord]
    /\ ret = [t \in Threads |-> NoRet]
    /\ ran = [t \in Threads |-> <<>>]
    /\ atCall = [t \in Threads |-> EmptyWord]
    /\ access = [t \in Threads |-> <<>>]
    /\ during = [t \in Threads |-> {}]
    /\ after = [t \in Threads |-> {}]
    /\ installed = [i \in Slots |-> NoArg]
    /\ fresh = TRUE
    /\ released = [i \in Slots |-> FALSE]
    /\ synced = [t \in Threads |-> FALSE]
    /\ seqMap = [i \in Slots |-> NoArg]
    /\ seqRes = [t \in Threads |-> NoRes]
    /\ held = [i \in Slots |-> [h \in Handler |-> 0]]

\* Entry of a call by a thread that is not inside one: the arguments, fresh
\* locals, and the bounds check `if idx >= N { return <failure>; }`.
Enter(t, method, i, h, failure, next) ==
    /\ op' = [op EXCEPT ![t] = method]
    /\ idx' = [idx EXCEPT ![t] = i]
    /\ arg' = [arg EXCEPT ![t] = h]
    /\ loaded' = [loaded EXCEPT ![t] = EmptyWord]
    /\ ran' = [ran EXCEPT ![t] = <<>>]
    /\ atCall' = [atCall EXCEPT ![t] = IF i \in Slots THEN handlers[i] ELSE EmptyWord]
    /\ access' = [u \in Threads |-> IF u = t THEN <<>> ELSE Forget(t, access[u])]
    /\ during' = [during EXCEPT ![t] = {}]
    /\ after' = [after EXCEPT ![t] = {}]
    /\ IF OutOfRange(i)
         THEN /\ pc' = [pc EXCEPT ![t] = "done"]
              /\ ret' = [ret EXCEPT ![t] = failure]
              /\ Linearize(t, method, i, h)
         ELSE /\ pc' = [pc EXCEPT ![t] = next]
              /\ ret' = [ret EXCEPT ![t] = NoRet]
              /\ seqRes' = [seqRes EXCEPT ![t] = NoRes]
              /\ UNCHANGED seqMap
    /\ synced' = [synced EXCEPT ![t] = FALSE]
    /\ UNCHANGED <<handlers, installed, fresh, released, held>>

\* -------------------------------------------------------- register_handler
RegisterCall(t, i, h) ==
    /\ ~InCall(t)
    /\ Enter(t, "register", i, h, Bool(FALSE), "cas")

\* self.handlers[idx].compare_exchange(0, handler as usize, ..).is_ok()
RegisterCas(t) ==
    /\ pc[t] = "cas"
    /\ LET i == Index(idx[t])
           r == CompareExchange(handlers[i], 0, AsUsize(arg[t]))
       IN /\ handlers' = [handlers EXCEPT ![i] = r.word]
          /\ ret' = [ret EXCEPT ![t] = Bool(r.ok)]
          /\ access' = [access EXCEPT ![t] = Append(@, Snapshot(t, i))]
          /\ installed' = [installed EXCEPT ![i] = IF r.ok THEN arg[t] ELSE @]
          /\ Notify(t, i, r.word # handlers[i], <<"reg", r.word, t>>)
          /\ released' = [released EXCEPT ![i] =
                             IF r.ok THEN Releases(CasSuccessOrdering) \/ @ ELSE @]
          /\ synced' = [synced EXCEPT ![t] =
                           /\ released[i]
                           /\ Acquires(IF r.ok THEN CasSuccessOrdering
                                               ELSE CasFailureOrdering)]
          /\ pc' = [pc EXCEPT ![t] = AfterCas(r.ok)]
          /\ Linearize(t, "register", i, arg[t])
          /\ held' = IF ret'[t] = Bool(TRUE)
                       THEN [held EXCEPT ![i][arg[t]] = @ + 1]
                       ELSE held
    /\ fresh' = FALSE
    /\ UNCHANGED <<op, idx, arg, loaded, ran, atCall>>

\* ------------------------------------------------------ unregister_handler
UnregisterCall(t, i) ==
    /\ ~InCall(t)
    /\ Enter(t, "unregister", i, NoArg, None, "swap")

\* let handler = self.handlers[idx].swap(0, ..);
\* if handler != 0 { Some(transmute(handler)) } else { None }
UnregisterSwap(t) ==
    /\ pc[t] = "swap"
    /\ LET i == Index(idx[t])
           r == Swap(handlers[i], 0)
       IN /\ handlers' = [handlers EXCEPT ![i] = r.word]
          /\ loaded' = [loaded EXCEPT ![t] = r.old]
          /\ ret' = [ret EXCEPT ![t] = ToOption(r.old)]
          /\ access' = [access EXCEPT ![t] = Append(@, Snapshot(t, i))]
          /\ installed' = [installed EXCEPT ![i] =
                              IF ToOption(r.old) # None THEN NoArg ELSE @]
          /\ Notify(t, i, r.word # handlers[i], <<"unreg", r.word, t>>)
          /\ released' = [released EXCEPT ![i] = Releases(SwapOrdering) \/ @]
          /\ synced' = [synced EXCEPT ![t] = released[i] /\ Acquires(SwapOrdering)]
          /\ Linearize(t, "unregister", i, NoArg)
          /\ held' = IF ret'[t] # None
                       THEN [held EXCEPT ![i][ret'[t][2]] = @ - 1]
                       ELSE held
    /\ pc' = [pc EXCEPT ![t] = "done"]
    /\ UNCHANGED <<op, idx, arg, ran, atCall, fresh>>

\* ------------------------------------------------------------------ handle
HandleCall(t, i) ==
    /\ ~InCall(t)
    /\ Enter(t, "handle", i, NoArg, Bool(FALSE), "load")

\* let handler = self.handlers[idx].load(..); if handler != 0 {..} else { false }
HandleLoad(t) ==
    /\ pc[t] = "load"
    /\ LET i == Index(idx[t])
           r == Load(handlers[i])
       IN /\ handlers' = [handlers EXCEPT ![i] = r.word]
          /\ loaded' = [loaded EXCEPT ![t] = r.val]
          /\ access' = [access EXCEPT ![t] = Append(@, Snapshot(t, i))]
          /\ IF r.val # 0
               THEN /\ pc' = [pc EXCEPT ![t] = "invoke"]
                    /\ UNCHANGED ret
               ELSE /\ pc' = [pc EXCEPT ![t] = "done"]
                    /\ ret' = [ret EXCEPT ![t] = Bool(FALSE)]
          /\ synced' = [synced EXCEPT ![t] = released[i] /\ Acquires(LoadOrdering)]
          /\ Linearize(t, "handle", i, NoArg)
    /\ UNCHANGED <<op, idx, arg, ran, atCall, during, after, installed, fresh,
                   released, held>>

\* let handler: Handler = transmute(handler); handler(); true
HandleInvoke(t) ==
    /\ pc[t] = "invoke"
    /\ ran' = [ran EXCEPT ![t] = Call(Transmute(loaded[t]), @)]
    /\ ret' = [ret EXCEPT ![t] = Bool(TRUE)]
    /\ pc' = [pc EXCEPT ![t] = "done"]
    /\ UNCHANGED <<handlers, op, idx, arg, loaded, atCall, access, during,
                   after, installed, fresh, released, synced, seqMap, seqRes,
                   held>>

\* ------------------------------------------------------------------- Next
Next ==
    \/ \E t \in Threads, i \in Indices, h \in Handler : RegisterCall(t, i, h)
    \/ \E t \in Threads : RegisterCas(t)
    \/ \E t \in Threads, i \in Indices : UnregisterCall(t, i)
    \/ \E t \in Threads : UnregisterSwap(t)
    \/ \E t \in Threads, i \in Indices : HandleCall(t, i)
    \/ \E t \in Threads : HandleLoad(t)
    \/ \E t \in Threads : HandleInvoke(t)

Spec == Init /\ [][Next]_vars

\* ------------------------------------------------------------ properties
Words == 0..NumHandlers

\* Thread t's current call is `method` on an in-range slot and has returned.
Returned(t, method) == op[t] = method /\ pc[t] = "done" /\ idx[t] \in Slots

\* The one atomic access of a returned in-range call.
Acc(t) == access[t][1]

\* Call t had returned when call u made its atomic access.
Before(t, u) == <<t, "done">> \in Acc(u).peers

\* The kinds of changes other threads made to t's slot during t's call.
KindsDuring(t) == {e[1] : e \in during[t]}

\* The current calls of t and u overlapped: one was still in progress when
\* the other made its atomic access.
Concurrent(t, u) ==
    /\ t # u
    /\ \E p \in {"cas", "swap", "load", "invoke"} :
          <<u, p>> \in Acc(t).peers \/ <<t, p>> \in Acc(u).peers

\* Every two calls of C overlapped.
Race(C) == Cardinality(C) >= 2 /\ \A t, u \in C : t # u => Concurrent(t, u)

\* No thread outside C changed the slot during a call of C.
Closed(C) == \A t \in C : \A e \in during[t] : e[3] \in C

\* Nothing changed the slot after a call of C returned.
Settled(C) == \A t \in C : after[t] = {}

TypeOK ==
    /\ handlers \in [Slots -> Words]
    /\ pc \in [Threads -> {"idle", "cas", "swap", "load", "invoke", "done"}]
    /\ op \in [Threads -> {"none", "register", "unregister", "handle"}]
    /\ idx \in [Threads -> Indices]
    /\ arg \in [Threads -> Handler \cup {NoArg}]
    /\ loaded \in [Threads -> Words]
    /\ atCall \in [Threads -> Words]
    /\ installed \in [Slots -> Handler \cup {NoArg}]
    /\ fresh \in BOOLEAN
    /\ released \in [Slots -> BOOLEAN]
    /\ synced \in [Threads -> BOOLEAN]
    /\ seqMap \in [Slots -> Handler \cup {NoArg}]
    /\ \A t \in Threads : seqRes[t].ret \in {NoRet, None, Bool(TRUE), Bool(FALSE)}
                                            \cup {Some(h) : h \in Handler}
    /\ held \in [Slots -> [Handler -> Int]]
    /\ \A t \in Threads : Len(access[t]) <= 1 /\ Len(ran[t]) <= 1

\* C1: registration is first-writer-wins. A register call whose
\* compare_exchange finds the slot empty returns true and the slot then holds
\* its handler; one that finds the slot occupied returns false and the slot
\* keeps the handler it held (until another thread changes it); and a handle
\* call runs the handler of the register call that returned true, never the
\* handler of one that returned false.
C1_FirstWriterWins ==
    /\ \A t \in Threads : Returned(t, "register") =>
          LET i == idx[t]
              a == Acc(t)
          IN IF a.word = 0
               THEN /\ ret[t] = Bool(TRUE)
                    /\ after[t] = {} =>
                          handlers[i] = AsUsize(arg[t]) /\ installed[i] = arg[t]
               ELSE /\ ret[t] = Bool(FALSE)
                    /\ a.owner # NoArg /\ a.word = AsUsize(a.owner)
                    /\ after[t] = {} =>
                          handlers[i] = a.word /\ installed[i] = a.owner
    /\ \A t \in Threads : Returned(t, "handle") /\ Acc(t).owner # NoArg =>
          ret[t] = Bool(TRUE) /\ ran[t] = <<Acc(t).owner>>

\* C1 witness: register(i, h) returned true, then register(i, h2) with
\* h2 # h returned false, then handle(i) ran h.
C1_Witness ==
    \E t, u \in Threads :
        /\ t # u
        /\ Returned(t, "register") /\ ret[t] = Bool(FALSE)
        /\ Acc(t).owner # arg[t]
        /\ Returned(u, "handle") /\ idx[u] = idx[t]
        /\ Before(t, u)
        /\ ret[u] = Bool(TRUE) /\ ran[u] = <<Acc(t).owner>>

\* The returned register calls on slot i that started with the slot empty and
\* had no unregister empty the slot during the call.
RegRacers(i) ==
    {t \in Threads : /\ Returned(t, "register") /\ idx[t] = i
                     /\ atCall[t] = 0 /\ "unreg" \notin KindsDuring(t)}

\* C2: of M >= 2 concurrent register calls on the same empty slot, with no
\* concurrent unregister, at most one returns true; when no other thread
\* changed the slot meanwhile exactly one returns true, every other one
\* returns false having seen the winner store its handler, and the slot ends
\* up holding the winner's handler.
C2_OneRegisterWins ==
    \A i \in Slots : \A C \in SUBSET RegRacers(i) : Race(C) =>
        LET W == {t \in C : ret[t] = Bool(TRUE)}
        IN /\ Cardinality(W) <= 1
           /\ \A t \in C \ W : ret[t] = Bool(FALSE) /\ "reg" \in KindsDuring(t)
           /\ \A t \in W : Settled({t}) => handlers[i] = AsUsize(arg[t])
           /\ Closed(C) =>
                 \E w \in C :
                    /\ W = {w}
                    /\ \A t \in C \ {w} :
                          during[t] = {<<"reg", AsUsize(arg[w]), w>>}
                    /\ Settled(C) => handlers[i] = AsUsize(arg[w])

\* C2 witness: all threads raced to register different handlers in one
\* empty slot and all have returned.
C2_Witness ==
    \E i \in Slots :
        /\ RegRacers(i) = Threads /\ Race(Threads)
        /\ Closed(Threads) /\ Settled(Threads)
        /\ \E t, u \in Threads : arg[t] # arg[u] /\ ret[t] # ret[u]

\* The returned unregister calls on slot i that started with the slot
\* occupied and had no register fill the slot during the call.
UnregRacers(i) ==
    {t \in Threads : /\ Returned(t, "unregister") /\ idx[t] = i
                     /\ atCall[t] # 0 /\ "reg" \notin KindsDuring(t)}

\* C3: of M >= 2 concurrent unregister calls on the same slot holding h,
\* with no concurrent register, at most one returns a handler, and it is h;
\* when no other thread changed the slot meanwhile exactly one returns h and
\* every other one returns None; the slot ends empty.
C3_OneUnregisterWins ==
    \A i \in Slots : \A C \in SUBSET UnregRacers(i) : Race(C) =>
        LET W == {t \in C : ret[t] # None}
        IN /\ Cardinality(W) <= 1
           /\ \A t, u \in C : atCall[t] = atCall[u]
           /\ \A t \in W : ret[t] = Some(Transmute(atCall[t])) /\ during[t] = {}
           /\ \A t \in C \ W : "unreg" \in KindsDuring(t)
           /\ \A t \in C : "reg" \notin after[t] => handlers[i] = 0
           /\ Closed(C) =>
                 \E w \in C :
                    /\ W = {w}
                    /\ \A t \in C \ {w} :
                          ret[t] = None /\ during[t] = {<<"unreg", 0, w>>}

\* C3 witness: all threads raced to unregister one occupied slot and all
\* have returned.
C3_Witness ==
    \E i \in Slots :
        /\ UnregRacers(i) = Threads /\ Race(Threads)
        /\ Closed(Threads) /\ Settled(Threads)
        /\ \E t, u \in Threads : ret[t] # None /\ ret[u] = None

\* C4: an unregister call whose swap finds the slot occupied returns exactly
\* the handler of the last register call that returned true on the slot, and
\* leaves the slot empty (until a register fills it again); a handle call on
\* the slot after it, with no register in between, returns false and runs
\* nothing.
C4_UnregisterReturnsRegistered ==
    /\ \A t \in Threads : Returned(t, "unregister") /\ Acc(t).word # 0 =>
          /\ Acc(t).owner # NoArg
          /\ ret[t] = Some(Acc(t).owner)
          /\ "reg" \notin after[t] =>
                handlers[idx[t]] = 0 /\ installed[idx[t]] = NoArg
    /\ \A t, u \in Threads :
          /\ Returned(t, "unregister") /\ ret[t] # None /\ "reg" \notin after[t]
          /\ Returned(u, "handle") /\ idx[u] = idx[t] /\ Before(t, u)
          => ret[u] = Bool(FALSE) /\ ran[u] = <<>>

\* C4 witness: unregister(i) returned the registered handler and a later
\* handle(i) returned false.
C4_Witness ==
    \E t, u \in Threads : \E h \in Handler :
        /\ Returned(t, "unregister") /\ ret[t] = Some(h) /\ Acc(t).owner = h
        /\ "reg" \notin after[t]
        /\ Returned(u, "handle") /\ idx[u] = idx[t] /\ Before(t, u)
        /\ ret[u] = Bool(FALSE)

\* The returned handle calls on slot i that started with the slot occupied
\* and had no unregister empty the slot during the call.
Invokers(i) ==
    {t \in Threads : /\ Returned(t, "handle") /\ idx[t] = i
                     /\ atCall[t] # 0 /\ "unreg" \notin KindsDuring(t)}

C5_State ==
    \A i \in Slots : \A t \in Invokers(i) :
        /\ ret[t] = Bool(TRUE)
        /\ Acc(t).owner # NoArg /\ AsUsize(Acc(t).owner) = atCall[t]
        /\ ran[t] = <<Acc(t).owner>>
        /\ after[t] = {} => handlers[i] = atCall[t]

C5_Step ==
    \A t \in Threads : op[t] = "handle" /\ InCall(t) /\ pc'[t] # pc[t] =>
        handlers' = handlers /\ installed' = installed

\* C5: while a slot stays occupied by the registered handler h, every handle
\* call on it returns true and runs h exactly once, and no step of a handle
\* call changes any slot: the handler is not consumed, so each of k
\* successive calls runs h.
C5_InvokeRunsOncePerCall == []C5_State /\ [][C5_Step]_vars

\* C5 witness: two handle calls on the same occupied slot, one after the
\* other, have each run the registered handler.
C5_Witness ==
    \E i \in Slots : \E t, u \in Invokers(i) :
        /\ t # u /\ Before(t, u)
        /\ ran[t] = <<installed[i]>> /\ ran[u] = <<installed[i]>>

\* What each method returns when it fails.
Failure(method) == IF method = "unregister" THEN None ELSE Bool(FALSE)

C6_State ==
    \A t \in Threads : op[t] # "none" /\ idx[t] >= N =>
        /\ pc[t] = "done"
        /\ ret[t] = Failure(op[t])
        /\ access[t] = <<>> /\ ran[t] = <<>>
        /\ \A u \in Threads :
              /\ Returned(u, op[t])
              /\ IF op[t] = "register" THEN Acc(u).word # 0 ELSE Acc(u).word = 0
              => ret[u] = ret[t]

C6_Step ==
    \A t \in Threads :
        /\ ~InCall(t) /\ idx'[t] >= N
        /\ <<op[t], idx[t], arg[t]>>' # <<op[t], idx[t], arg[t]>>
        => /\ handlers' = handlers /\ installed' = installed
           /\ pc'[t] = "done" /\ ret'[t] = Failure(op'[t])

\* C6: a call with idx >= N returns at once, whatever the table holds and
\* whatever the other threads do: register returns false, unregister None,
\* handle false; it makes no atomic access, runs no handler and changes no
\* slot; and its result equals that of unregister or handle on an empty slot
\* and of register on an occupied slot.
C6_OutOfRangeRejected == []C6_State /\ [][C6_Step]_vars

\* C6 witness: with a handler registered, unregister(N) has returned None
\* and register(N + 1, h) has returned false.
C6_Witness ==
    \E t, u \in Threads :
        /\ op[t] = "unregister" /\ idx[t] = N /\ ret[t] = None
        /\ op[u] = "register" /\ idx[u] = N + 1 /\ ret[u] = Bool(FALSE)
        /\ \E i \in Slots : handlers[i] # 0

\* C7: in a table on which no register call has yet reached its
\* compare_exchange (new, or default, which is new), every slot is empty:
\* every handle call on a slot returns false and runs nothing, and every
\* unregister call returns None.
C7_FreshTableEmpty ==
    fresh =>
        /\ \A i \in Slots : handlers[i] = 0 /\ installed[i] = NoArg
        /\ \A t \in Threads : Returned(t, "handle") =>
              ret[t] = Bool(FALSE) /\ ran[t] = <<>>
        /\ \A t \in Threads : Returned(t, "unregister") => ret[t] = None

\* C7 witness: on a fresh table handle and unregister have returned, on the
\* first and on the last slot.
C7_Witness ==
    \E t, u \in Threads :
        /\ fresh
        /\ Returned(t, "handle") /\ idx[t] = 0 /\ ret[t] = Bool(FALSE)
        /\ Returned(u, "unregister") /\ idx[u] = N - 1 /\ ret[u] = None

C8_State ==
    \A t \in Threads : Returned(t, "unregister") /\ Acc(t).word = 0 =>
        ret[t] = None /\ Acc(t).owner = NoArg

C8_Step ==
    \A t \in Threads :
        pc[t] = "swap" /\ pc'[t] = "done" /\ handlers[idx[t]] = 0 =>
            /\ ret'[t] = None
            /\ handlers' = handlers /\ installed' = installed

\* C8: an unregister call whose swap finds an in-range slot empty returns
\* None and changes nothing: that slot stays empty and every other slot
\* keeps its word.
C8_UnregisterEmptyIsNoop == []C8_State /\ [][C8_Step]_vars

\* C8 witness: unregister returned None on an empty slot while another slot
\* is occupied.
C8_Witness ==
    \E t \in Threads : \E j \in Slots :
        /\ Returned(t, "unregister") /\ Acc(t).word = 0 /\ ret[t] = None
        /\ j # idx[t] /\ handlers[j] # 0 /\ handlers[idx[t]] = 0

\* The calls of handler h made by the threads of C in their current calls.
RunsOf(C, h) ==
    UNION {{<<t, k>> : k \in {j \in 1..Len(ran[t]) : ran[t][j] = h}} : t \in C}

\* C9: K >= 2 concurrent handle calls on a slot that holds h throughout
\* (no concurrent unregister) all return true and h is run exactly K times,
\* once by each caller.
C9_ConcurrentInvokesAllRun ==
    \A i \in Slots : \A C \in SUBSET Invokers(i) : Race(C) =>
        /\ \A t, u \in C : atCall[t] = atCall[u]
        /\ \A t \in C :
              /\ ret[t] = Bool(TRUE)
              /\ ran[t] = <<Transmute(atCall[t])>>
              /\ Cardinality(RunsOf(C, Transmute(atCall[t]))) = Cardinality(C)

\* C9 witness: all threads were inside handle on the same occupied slot at
\* the same time and all have returned.
C9_Witness ==
    \E i \in Slots :
        /\ Invokers(i) = Threads /\ Race(Threads)
        /\ \A t \in Threads : ret[t] = Bool(TRUE) /\ Len(ran[t]) = 1

\* The load of handle call t came before the swap of unregister call u:
\* u had not swapped yet at the load, or t had already loaded at the swap.
LoadFirst(t, u) ==
    <<u, "swap">> \in Acc(t).peers \/ <<t, "invoke">> \in Acc(u).peers

\* The swap of unregister call u came before the load of handle call t.
SwapFirst(t, u) == <<t, "load">> \in Acc(u).peers

\* Handle call t and unregister call u raced on a slot that was occupied
\* when each started, with no other thread changing the slot meanwhile.
InvokeUnregisterRace(t, u) ==
    /\ Returned(t, "handle") /\ Returned(u, "unregister") /\ idx[t] = idx[u]
    /\ atCall[t] # 0 /\ atCall[u] # 0
    /\ during[t] \subseteq {<<"unreg", 0, u>>} /\ during[u] = {}
    /\ (LoadFirst(t, u) \/ SwapFirst(t, u))

\* C10: when handle races with unregister on a slot holding h, unregister
\* returns h, and handle runs h and returns true if its load came before the
\* swap, runs nothing and returns false if the swap came first; it returns
\* true exactly when it ran a handler.
C10_InvokeUnregisterRace ==
    \A t, u \in Threads : InvokeUnregisterRace(t, u) =>
        /\ atCall[t] = atCall[u]
        /\ ret[u] = Some(Transmute(atCall[u]))
        /\ ~(LoadFirst(t, u) /\ SwapFirst(t, u))
        /\ LoadFirst(t, u) =>
              ret[t] = Bool(TRUE) /\ ran[t] = <<Transmute(atCall[t])>>
        /\ SwapFirst(t, u) => ret[t] = Bool(FALSE) /\ ran[t] = <<>>
        /\ ret[t] = Bool(ran[t] # <<>>)

\* C10 witness: the swap came first and the racing handle returned false.
C10_Witness ==
    \E t, u \in Threads :
        InvokeUnregisterRace(t, u) /\ SwapFirst(t, u) /\ ret[t] = Bool(FALSE)

\* The other outcome of the race: the load came first and the racing handle
\* ran the handler that unregister returned.
C10_WitnessLoadFirst ==
    \E t, u \in Threads :
        /\ InvokeUnregisterRace(t, u) /\ LoadFirst(t, u)
        /\ ret[t] = Bool(TRUE) /\ ret[u] = Some(ran[t][1])

\* C11: a handle or unregister call that reads a registered handler from a
\* slot reads the whole word the register call stored, never a partial one,
\* and its acquire access synchronizes with a release store of that word by
\* the register call.
C11_ReleaseAcquirePublish ==
    \A t \in Threads :
        /\ op[t] \in {"handle", "unregister"} /\ idx[t] \in Slots
        /\ access[t] # <<>> /\ Acc(t).word # 0
        => /\ Acc(t).owner # NoArg /\ Acc(t).word = AsUsize(Acc(t).owner)
           /\ loaded[t] = Acc(t).word
           /\ synced[t]

\* The part of C11 that the code has: a reader never sees a partial word.
C11_NeverTorn ==
    \A t \in Threads :
        /\ op[t] \in {"handle", "unregister"} /\ idx[t] \in Slots
        /\ access[t] # <<>> /\ Acc(t).word # 0
        => /\ Acc(t).owner # NoArg /\ Acc(t).word = AsUsize(Acc(t).owner)
           /\ loaded[t] = Acc(t).word

C12_State ==
    \A i \in Slots :
        IF handlers[i] = 0
          THEN installed[i] = NoArg
          ELSE installed[i] \in Handler /\ handlers[i] = AsUsize(installed[i])

\* The step is the atomic access of a call of thread t on slot i.
AccessStep(t, i) == InCall(t) /\ idx[t] = i /\ Len(access'[t]) > Len(access[t])

C12_Step ==
    /\ \A i \in Slots : handlers'[i] # handlers[i] =>
          \E t \in Threads :
              /\ AccessStep(t, i)
              /\ \/ /\ op[t] = "register" /\ ret'[t] = Bool(TRUE)
                    /\ handlers[i] = 0 /\ handlers'[i] = AsUsize(arg[t])
                 \/ /\ op[t] = "unregister"
                    /\ ret'[t] = Some(Transmute(handlers[i]))
                    /\ handlers[i] # 0 /\ handlers'[i] = 0
    /\ \A t \in Threads : pc'[t] # pc[t] =>
          \/ op'[t] = "register" /\ ret'[t] = Bool(TRUE)
          \/ op'[t] = "unregister" /\ ret'[t] \notin {None, NoRet}
          \/ handlers' = handlers

\* C12: every slot is always empty or holds the handler of the register call
\* that last returned true on it, and it changes only from empty to occupied
\* by h in the compare_exchange of a register(idx, h) that returns true, or
\* from occupied to empty in the swap of an unregister(idx) that returns the
\* handler; never from one handler to another; handle, a register that
\* returns false and an unregister that returns None change no slot.
C12_SlotStateMachine == []C12_State /\ [][C12_Step]_vars

\* C12 witness: a slot went from occupied to empty by an unregister call
\* that returned its handler, and is occupied again by a later register.
C12_Witness ==
    \E t \in Threads : \E h \in Handler :
        /\ Returned(t, "unregister") /\ ret[t] = Some(h)
        /\ "reg" \in after[t] /\ handlers[idx[t]] # 0
        /\ installed[idx[t]] # h

\* The steps of thread t inside a call.
OwnStep(t) ==
    RegisterCas(t) \/ UnregisterSwap(t) \/ HandleLoad(t) \/ HandleInvoke(t)

\* The position at which each method makes its atomic access.
AccessAt(method) ==
    CASE method = "register" -> "cas"
      [] method = "unregister" -> "swap"
      [] method = "handle" -> "load"
      [] OTHER -> "none"

\* The number of steps a call at position p has left, at most.
StepsLeft(p) ==
    CASE p \in {"cas", "swap", "load"} -> 2
      [] p = "invoke" -> 1
      [] OTHER -> 0

C13_State ==
    \A t \in Threads :
        /\ Len(access[t]) <= 1
        /\ op[t] # "none" /\ idx[t] >= N => access[t] = <<>> /\ pc[t] = "done"
        /\ op[t] # "none" /\ idx[t] \in Slots =>
              Len(access[t]) = IF pc[t] = AccessAt(op[t]) THEN 0 ELSE 1
        /\ InCall(t) => ENABLED OwnStep(t)

C13_Step ==
    \A t \in Threads :
        InCall(t) /\ (pc'[t] # pc[t] \/ Len(access'[t]) # Len(access[t])) =>
            /\ StepsLeft(pc'[t]) < StepsLeft(pc[t])
            /\ Len(access'[t]) # Len(access[t]) => pc[t] = AccessAt(op[t])

\* C13: every call makes at most one atomic access, to its own slot
\* (register at its compare_exchange, unregister at its swap, handle at its
\* load; none when idx >= N); a call in progress can always take its next
\* step, whatever the other threads do, and each of its steps brings it
\* nearer to its return, which is at most two steps away.
C13_WaitFree == []C13_State /\ [][C13_Step]_vars

\* The consequence of C13 for each thread: if it keeps taking its own steps
\* it returns from every call, with no fairness assumed of the other threads.
C13_Completes ==
    \A t \in Threads : WF_vars(OwnStep(t)) => (InCall(t) ~> ~InCall(t))

\* C13 witness: a call returned after its one atomic access, which failed,
\* while another thread is inside a call on the same slot.
C13_Witness ==
    \E t, u \in Threads :
        /\ Returned(t, "register") /\ ret[t] = Bool(FALSE) /\ Len(access[t]) = 1
        /\ InCall(u) /\ idx[u] = idx[t]
        /\ <<u, pc[u]>> \in Acc(t).peers

C14_State ==
    /\ \A t \in Threads : InCall(t) => ENABLED OwnStep(t)
    /\ \A t \in Threads : ~InCall(t) =>
          \A i \in Slots :
              /\ ENABLED UnregisterCall(t, i)
              /\ ENABLED HandleCall(t, i)
              /\ \A g \in Handler : ENABLED RegisterCall(t, i, g)
    /\ \A t \in Threads : Returned(t, "register") /\ Acc(t).word = 0 =>
          /\ ret[t] = Bool(TRUE)
          /\ after[t] = {} => installed[idx[t]] = arg[t]

C14_Step ==
    \A t \in Threads :
        /\ pc[t] = "swap" /\ pc'[t] = "done" => handlers'[idx[t]] = 0
        /\ pc[t] = "cas" /\ pc'[t] = "done" =>
              /\ handlers'[idx[t]] # 0
              /\ handlers[idx[t]] = 0 => handlers'[idx[t]] = AsUsize(arg[t])
        /\ pc[t] = "load" /\ pc'[t] # "load" /\ handlers[idx[t]] # 0 =>
              pc'[t] = "invoke" /\ loaded'[t] = handlers[idx[t]]
        /\ pc[t] = "invoke" /\ pc'[t] = "done" =>
              ran'[t] = <<Transmute(loaded[t])>>

\* C14: no slot has a terminal state. In every reachable state a thread
\* inside a call can take its next step, a thread outside a call can call
\* register, unregister and handle on every slot with every handler, the
\* swap of unregister always leaves the slot empty and the compare_exchange
\* of register always leaves it occupied, by its own handler g when it found
\* the slot empty; so from every reachable state a state with the slot empty
\* and a state with the slot occupied can be reached, and after an
\* unregister a register of any g returns true and handle then runs g.
C14_NoTerminalState == []C14_State /\ [][C14_Step]_vars

\* C14 witness: unregister returned h from a slot, a later register stored
\* another handler g there, and a handle after that ran g.
C14_Witness ==
    \E t, u \in Threads : \E h, g \in Handler :
        /\ h # g
        /\ Returned(t, "unregister") /\ ret[t] = Some(h) /\ "reg" \in after[t]
        /\ Returned(u, "handle") /\ idx[u] = idx[t] /\ Before(t, u)
        /\ installed[idx[t]] = g /\ ran[u] = <<g>>

\* The word that stands for a slot of the documented table.
WordOf(x) == IF x = NoArg THEN 0 ELSE AsUsize(x)

\* C15: linearizability. Taking each call to act at one step between its
\* start and its return (its atomic access, or its bounds check when idx is
\* out of range), the table always holds what the documented behaviour of
\* the calls, applied one at a time in the order of those steps, leaves in
\* it, and every call returns the value, and runs the handlers, that this
\* behaviour gives at that step.
C15_Linearizable ==
    /\ \A i \in Slots : handlers[i] = WordOf(seqMap[i])
    /\ \A t \in Threads :
          /\ pc[t] \in {"idle", "cas", "swap", "load"} => seqRes[t] = NoRes
          /\ pc[t] = "invoke" =>
                /\ seqRes[t].ret = Bool(TRUE)
                /\ seqRes[t].run = <<Transmute(loaded[t])>>
          /\ pc[t] = "done" =>
                ret[t] = seqRes[t].ret /\ ran[t] = seqRes[t].run

\* C15 witness: two overlapping calls on one slot have returned different
\* values, and a third call's result is in the table.
C15_Witness ==
    \E t, u \in Threads :
        /\ Returned(t, "register") /\ Returned(u, "register")
        /\ Concurrent(t, u) /\ arg[t] # arg[u]
        /\ ret[t] = Bool(TRUE) /\ ret[u] = Bool(FALSE)
        /\ seqMap[idx[t]] = arg[t] /\ \E j \in Slots : j # idx[t] /\ seqMap[j] # NoArg

\* C16: exclusive occupancy and conservation. For every slot, the register
\* calls that returned true minus the unregister calls that returned a
\* handler is 1 when the slot is occupied and 0 when it is empty; counted per
\* handler the difference is never negative (a handler is only handed out
\* for an earlier successful register of it that no other unregister took),
\* never above one, and the one handler registered and not handed out is the
\* one in the slot.
C16_Conservation ==
    \A i \in Slots :
        /\ \A h \in Handler : held[i][h] \in {0, 1}
        /\ Cardinality({h \in Handler : held[i][h] = 1})
              = IF handlers[i] = 0 THEN 0 ELSE 1
        /\ handlers[i] # 0 => held[i][Transmute(handlers[i])] = 1

\* C16 witness: a handler has been registered, handed out by an unregister
\* that returned, and a different handler has since been registered in the
\* same slot while another slot is occupied too.
C16_Witness ==
    \E t \in Threads, h, g \in Handler :
        /\ Returned(t, "unregister") /\ ret[t] = Some(h) /\ h # g
        /\ held[idx[t]][h] = 0 /\ held[idx[t]][g] = 1
        /\ handlers[idx[t]] = AsUsize(g)
        /\ \E j \in Slots : j # idx[t] /\ handlers[j] # 0

\* The step is one of thread t: it starts a call or takes a step of its call.
Acts(t) == pc'[t] # pc[t] \/ Len(access'[t]) # Len(access[t])

\* What the next step of the call of t does, read off slot idx[t] and the
\* locals of t alone: the word it leaves in the slot, the value returned (if
\* the step returns), the word read and the handlers run.
Outcome(t) ==
    LET w == handlers[idx[t]]
    IN CASE pc[t] = "cas" ->
              [word |-> IF w = 0 THEN AsUsize(arg[t]) ELSE w,
               ret |-> Bool(w = 0), loaded |-> loaded[t], ran |-> <<>>]
         [] pc[t] = "swap" ->
              [word |-> 0,
               ret |-> IF w = 0 THEN None ELSE Some(Transmute(w)),
               loaded |-> w, ran |-> <<>>]
         [] pc[t] = "load" ->
              [word |-> w,
               ret |-> IF w = 0 THEN Bool(FALSE) ELSE NoRet,
               loaded |-> w, ran |-> <<>>]
         [] pc[t] = "invoke" ->
              [word |-> w, ret |-> Bool(TRUE), loaded |-> loaded[t],
               ran |-> <<Transmute(loaded[t])>>]
         [] OTHER ->
              [word |-> w, ret |-> ret[t], loaded |-> loaded[t], ran |-> ran[t]]

\* C17: frame. A step of a call on an in-range index idx (its start and each
\* of its steps, whatever it returns) leaves every other slot as it was,
\* leaves every call on another index as it was together with what that
\* call's next step will do, and does itself exactly what slot idx and its
\* own locals determine: so steps on distinct indices commute, and the
\* result of a call does not depend on the other slots or the calls on them.
C17_Step ==
    \A t \in Threads :
        Acts(t) /\ idx'[t] \in Slots =>
            LET i == idx'[t]
            IN /\ \A j \in Slots \ {i} :
                     /\ handlers'[j] = handlers[j]
                     /\ installed'[j] = installed[j]
                     /\ released'[j] = released[j]
                     /\ seqMap'[j] = seqMap[j]
                     /\ held'[j] = held[j]
               /\ \A u \in Threads \ {t} :
                     idx[u] # i =>
                       /\ pc'[u] = pc[u] /\ ret'[u] = ret[u]
                       /\ ran'[u] = ran[u] /\ loaded'[u] = loaded[u]
                       /\ during'[u] = during[u] /\ after'[u] = after[u]
                       /\ seqRes'[u] = seqRes[u]
                       /\ InCall(u) => Outcome(u)' = Outcome(u)
               /\ InCall(t) =>
                     [word |-> handlers'[i], ret |-> ret'[t],
                      loaded |-> loaded'[t], ran |-> ran'[t]] = Outcome(t)

C17_Frame == [][C17_Step]_vars

\* C17 witness: an unregister on one slot has returned its handler while a
\* handle call on another, occupied slot is between its load and the call of
\* the handler it read, and that slot still holds the handler.
C17_Witness ==
    \E t, u \in Threads :
        /\ Returned(t, "unregister") /\ ret[t] # None
        /\ op[u] = "handle" /\ pc[u] = "invoke"
        /\ idx[u] # idx[t] /\ idx[t] # 0
        /\ handlers[idx[t]] = 0
        /\ loaded[u] # 0 /\ handlers[idx[u]] = loaded[u]

\* C18: a handle call runs only the occupant of its slot at its load. What
\* it has read, and what it has run, is the handler that a register call
\* which returned true had put in slot idx and that no unregister had taken
\* out when the load happened; it runs at most one handler; and a register
\* call that returns false (slot occupied, or idx out of range) changes no
\* slot, so the handler it was given is run only if it was the occupant by
\* another, successful, register.
C18_State ==
    /\ \A t \in Threads :
          /\ Len(ran[t]) <= 1
          /\ ran[t] # <<>> =>
                /\ Returned(t, "handle") /\ ret[t] = Bool(TRUE)
                /\ Acc(t).owner # NoArg
                /\ ran[t] = <<Acc(t).owner>>
                /\ Acc(t).word = AsUsize(ran[t][1])
          /\ pc[t] = "invoke" =>
                /\ Acc(t).owner # NoArg
                /\ Transmute(loaded[t]) = Acc(t).owner
    /\ \A t, u \in Threads :
          /\ op[u] = "register" /\ pc[u] = "done" /\ ret[u] = Bool(FALSE)
          /\ ran[t] = <<arg[u]>>
          => Acc(t).owner = arg[u]

C18_Step ==
    \A u \in Threads :
        /\ Acts(u) /\ op'[u] = "register"
        /\ pc'[u] = "done" /\ ret'[u] = Bool(FALSE)
        => handlers' = handlers /\ installed' = installed

InFlightAtSwap(t, u) ==
    /\ op[t] = "handle" /\ Returned(u, "unregister") /\ t # u
    /\ <<t, "invoke">> \in Acc(u).peers

\* The load of handle call t came after unregister call u had swapped, and
\* no register has changed the slot since that swap.
LoadAfterSwap(t, u) ==
    /\ op[t] = "handle" /\ Returned(u, "unregister") /\ t # u
    /\ idx[t] = idx[u] /\ access[t] # <<>>
    /\ SwapFirst(t, u) \/ Before(u, t)
    /\ "reg" \notin after[u]

\* C19: unregister is not a barrier for a handle call in flight. A handle
\* call that had read h before the swap of an unregister call still calls h
\* after that unregister has returned, and returns true; if unregister
\* returned a handler and nothing else changed the slot during the handle
\* call, h is the handler unregister returned. A
\* handle call whose load comes after the swap, with no register since,
\* finds the slot empty, runs nothing and returns false.
C19_UnregisterNoBarrier ==
    \A t, u \in Threads :
        /\ InFlightAtSwap(t, u) =>
              /\ pc[t] \in {"invoke", "done"} /\ loaded[t] # 0
              /\ pc[t] = "done" =>
                    ret[t] = Bool(TRUE) /\ ran[t] = <<Transmute(loaded[t])>>
              /\ ret[u] # None /\ during[t] \subseteq {<<"unreg", 0, u>>} =>
                    ret[u] = Some(Transmute(loaded[t]))
        /\ LoadAfterSwap(t, u) =>
              /\ Acc(t).word = 0 /\ pc[t] = "done"
              /\ ret[t] = Bool(FALSE) /\ ran[t] = <<>>

\* C19 witness: unregister has returned Some(h) and the slot is empty since;
\* a handle call that was between its load and its call of h at that swap
\* has run h afterwards and returned true.
C19_Witness ==
    \E t, u \in Threads, h \in Handler :
        /\ InFlightAtSwap(t, u)
        /\ ret[u] = Some(h) /\ after[u] = {} /\ handlers[idx[u]] = 0
        /\ pc[t] = "done" /\ ret[t] = Bool(TRUE) /\ ran[t] = <<h>>

\* C19, the guaranteed case: a handle call that loaded after the swap has
\* returned false.
C19_WitnessLoadAfterSwap ==
    \E t, u \in Threads :
        /\ LoadAfterSwap(t, u) /\ ret[u] # None
        /\ ret[t] = Bool(FALSE)
====
